---- MODULE Spec2Model ----
(***************************************************************************)
(* Model of ChatCompletionRequest::stream (src/src/chat/mod.rs): a task    *)
(* spawned by stream() pulls events from a reqwest_eventsource EventSource *)
(* and forwards every decodable chunk into an unbounded mpsc channel; the  *)
(* caller reads the channel through UnboundedReceiverStream.  Further      *)
(* specifications over the same variables model the request body, the      *)
(* chunk codec, event framing, and the builders of src/src/lib.rs,         *)
(* src/src/chat/mod.rs, src/src/chat/message.rs and src/src/audio.         *)
(***************************************************************************)
EXTENDS Integers, Sequences, FiniteSets, TLC

\* Number of events the event source yields in one modelled run.
MaxEvents == 3

\* Number of sub-messages in one text frame.
MaxSubs == 3

\* serde's None for an Option<String> field (JSON null or a missing key).
NoneStr == "<none>"

\* the JSON literal null
JsonNull == "null"

\* Some(serde_json::Value::Null) in an Option<serde_json::Value> field
SomeNull == "Some(Null)"

(***************************************************************************)
(* JSON texts.  A text carried by Event::Message is either a raw string    *)
(* (raw = TRUE, s its characters) or the JSON object obj.  An object keeps *)
(* for each key either its value or NoneStr when the key is missing.       *)
(***************************************************************************)
NoObj == [id |-> NoneStr, object |-> NoneStr, created |-> NoneStr, model |-> NoneStr,
          system_fingerprint |-> NoneStr, choices |-> <<>>]

Raw(s) == [raw |-> TRUE, s |-> s, obj |-> NoObj]

Json(o) == [raw |-> FALSE, s |-> "", obj |-> o]

\* One element of "choices" in a chunk payload.
ChoiceJson(c) == [index |-> "0", content |-> c, finish_reason |-> NoneStr, logprobs |-> NoneStr]

ChunkJson(id, fp, cs) == [id |-> id, object |-> "chat.completion.chunk", created |-> "1",
                          model |-> "gpt-4", system_fingerprint |-> fp, choices |-> cs]

\* Choice lists used in the payloads: none, absent / empty / non-empty content.
ChoiceLists == { <<>>,
                 <<ChoiceJson(NoneStr)>>,
                 <<ChoiceJson("")>>,
                 <<ChoiceJson("hello")>>,
                 <<ChoiceJson(""), ChoiceJson("Hi")>> }

\* Payloads that carry every required key.
GoodPayloads == { Json(ChunkJson("1", "fp", cs)) : cs \in ChoiceLists }

\* Texts the server can put in the data field of a message.
Datas == GoodPayloads
           \cup { Raw("[DONE]"), Raw(""), Raw("not an event"),
                  Json(ChunkJson("2", NoneStr, <<ChoiceJson("hello")>>)),
                  Json(ChunkJson(NoneStr, "fp", <<ChoiceJson("hello")>>)) }

(***************************************************************************)
(* Delta, ChoiceStreamed, ChatCompletionChunkResponse and their derived    *)
(* Deserialize: String fields are required, Option fields default to None. *)
(***************************************************************************)
\* Option<T>::deserialize: a missing key or null gives None, a value v gives Some(v)
Option_deserialize(v) == IF v \in {NoneStr, JsonNull} THEN NoneStr ELSE v

\* FinishReason with #[serde(rename_all = "snake_case")]: variant -> JSON name
FinishReasonNames == [Stop |-> "stop", Limit |-> "limit",
                      ContentFilter |-> "content_filter", ToolCalls |-> "tool_calls"]

\* Option<FinishReason>::deserialize of a JSON name that names a variant
FinishReason_deserialize(v) ==
    IF v \in {NoneStr, JsonNull} THEN NoneStr
    ELSE CHOOSE f \in DOMAIN FinishReasonNames : FinishReasonNames[f] = v

Delta(c) == [content |-> Option_deserialize(c.content)]

\* variant: the delta's content is not carried over
ChoiceStreamed_nocontent(c) == [index |-> c.index, delta |-> [content |-> NoneStr],
                                finish_reason |-> FinishReason_deserialize(c.finish_reason),
                                logprobs |-> Option_deserialize(c.logprobs)]

ChoiceStreamed(c) == [index |-> c.index, delta |-> Delta(c),
                      finish_reason |-> FinishReason_deserialize(c.finish_reason),
                      logprobs |-> Option_deserialize(c.logprobs)]

ChatCompletionChunkResponse(o) ==
    [id |-> o.id,
     choices |-> [i \in 1..Len(o.choices) |-> ChoiceStreamed(o.choices[i])],
     created |-> o.created,
     model |-> o.model,
     system_fingerprint |-> o.system_fingerprint,
     object |-> o.object]

\* serde_json::from_str::<ChatCompletionChunkResponse>(data).is_ok()
from_str_ok(data) ==
    /\ ~data.raw
    /\ data.obj.id \notin {NoneStr, JsonNull}
    /\ data.obj.created \notin {NoneStr, JsonNull}
    /\ data.obj.model \notin {NoneStr, JsonNull}
    /\ data.obj.system_fingerprint \notin {NoneStr, JsonNull}
    /\ data.obj.object \notin {NoneStr, JsonNull}
    /\ \A i \in 1..Len(data.obj.choices) :
          /\ data.obj.choices[i].index \notin {NoneStr, JsonNull}
          /\ data.obj.choices[i].finish_reason \in
                {NoneStr, JsonNull} \cup {FinishReasonNames[f] : f \in DOMAIN FinishReasonNames}

\* the value of serde_json::from_str::<ChatCompletionChunkResponse>(data)
from_str(data) == ChatCompletionChunkResponse(data.obj)

(***************************************************************************)
(* The derived Serialize of the chunk types: every field is written, None  *)
(* as null, an Option<Value> holding Value::Null as null too.              *)
(***************************************************************************)
Option_serialize(v) == IF v \in {NoneStr, SomeNull} THEN JsonNull ELSE v

FinishReason_serialize(v) == IF v = NoneStr THEN JsonNull ELSE FinishReasonNames[v]

ChoiceStreamed_serialize(c) ==
    [index |-> c.index,
     content |-> Option_serialize(c.delta.content),
     finish_reason |-> FinishReason_serialize(c.finish_reason),
     logprobs |-> Option_serialize(c.logprobs)]

\* serde_json::to_string(&chunk)
to_string(ch) ==
    Json([id |-> ch.id,
          object |-> ch.object,
          created |-> ch.created,
          model |-> ch.model,
          system_fingerprint |-> ch.system_fingerprint,
          choices |-> [i \in 1..Len(ch.choices) |-> ChoiceStreamed_serialize(ch.choices[i])]])

\* the ChoiceStreamed values: content, finish_reason and logprobs each None or Some
ChoiceValues ==
    { [index |-> "0", delta |-> [content |-> c], finish_reason |-> f, logprobs |-> l] :
        c \in {NoneStr, "", "hello", "Hi"}, f \in {NoneStr, "Stop", "ContentFilter"},
        l \in {NoneStr, SomeNull, "{tokens}"} }

\* the chunk values: no choice, one, or two
ChunkValues ==
    { [id |-> "1", choices |-> cs, created |-> "1", model |-> "gpt-4",
       system_fingerprint |-> fp, object |-> "chat.completion.chunk"] :
        fp \in {"", "fp"},
        cs \in {<<>>} \cup { <<c>> : c \in ChoiceValues }
                      \cup { <<c, d>> : c \in ChoiceValues, d \in ChoiceValues } }

NotDecoded == [done |-> FALSE, ok |-> FALSE, value |-> ChatCompletionChunkResponse(NoObj)]

(***************************************************************************)
(* impl From<ChatCompletionChunkResponse> for String: the choices' delta   *)
(* contents, each unwrap_or_default(), collected into one String.          *)
(***************************************************************************)
\* Option<String>::unwrap_or_default
unwrap_or_default(v) == IF v = NoneStr THEN "" ELSE v

\* Iterator<Item = String>::collect::<String>()
RECURSIVE collect(_)
collect(ss) == IF Len(ss) = 0 THEN "" ELSE Head(ss) \o collect(Tail(ss))

\* variant: the contents are collected last choice first
String_from_reversed(ch) ==
    collect([i \in 1..Len(ch.choices) |->
                unwrap_or_default(ch.choices[Len(ch.choices) + 1 - i].delta.content)])

\* String::from(response)
String_from(ch) ==
    collect([i \in 1..Len(ch.choices) |-> unwrap_or_default(ch.choices[i].delta.content)])

\* no String has been made of the chunk
NotConverted == [done |-> FALSE, s |-> ""]

(***************************************************************************)
(* Events yielded by es.next(): Some(Ok(Event::Open)),                     *)
(* Some(Ok(Event::Message(msg))) and Some(Err(err)).  After an error the   *)
(* event source either retries (fatal = FALSE) or closes itself.           *)
(***************************************************************************)
Open == [kind |-> "Open", data |-> Raw(""), fatal |-> FALSE]

Message(d) == [kind |-> "Message", data |-> d, fatal |-> FALSE]

Err(f) == [kind |-> "Err", data |-> Raw(""), fatal |-> f]

Events == {Open} \cup {Message(d) : d \in Datas} \cup {Err(f) : f \in BOOLEAN}

\* The item type of the returned stream: a decoded chunk.
Item(json) == [tag |-> "Chunk", chunk |-> json, message |-> <<>>]

VARIABLES
    pc,          \* position of the spawned task: "next", "match", "exited", "panicked"
    event,       \* the event bound by `while let Some(event)`
    es_closed,   \* EventSource is closed: es.next() yields None
    chan,        \* items sent on tx and not yet received
    rx,          \* receiver side: "open", "ended" (saw None), "dropped"
    received,    \* items the consumer got from the stream, in order
    events,      \* every event es.next() has yielded so far, in order
    request,     \* the ChatCompletionRequest a body is built from
    body,        \* the JSON body handed to .json(..) by send() or stream()
    api,         \* the request type whose send() is running
    res,         \* the outcome of req.send().await: the HTTP response, if any
    ret,         \* what send() returned
    chunk,       \* a ChatCompletionChunkResponse value
    encoded,     \* serde_json::to_string(&chunk)
    decoded,     \* serde_json::from_str of the encoded text
    str,         \* String::from(chunk)
    frame,       \* a text frame on the wire: its sub-messages, split at the blank lines
    sub,         \* how many sub-messages of the frame the event source has consumed
    oab,         \* an OpenAiBuilder
    openai,      \* what OpenAiBuilder::build returned
    rb,          \* the request builder made from the OpenAi instance
    mjson,       \* a JSON object given to serde_json::from_value::<Message>
    mvalue,      \* what from_value returned
    ccb,         \* a ChatCompletionRequestBuilder
    given,       \* for model, openai and each Option field, the value last given to it
    calls,       \* the messages() and add_message() calls made on the builder, in order
    ncalls,      \* how many setters were called on the builder
    creq,        \* what ChatCompletionRequestBuilder::build returned
    sb,          \* a SpeechRequestBuilder
    sreq,        \* what SpeechRequestBuilder::build returned, or that it panicked
    format,      \* an AudioFormat, if one is being converted
    extension,   \* the string given to AudioFormat::from_extension
    mime,        \* what AudioFormat::to_mime returned
    parsed,      \* what AudioFormat::from_extension returned
    tb           \* a TranscribeRequestBuilder

vars == <<pc, event, es_closed, chan, rx, received, events, request, body, api, res, ret,
          chunk, encoded, decoded, str, frame, sub, oab, openai, rb,
          mjson, mvalue, ccb, given, calls, ncalls, creq,
          sb, sreq, format, extension, mime, parsed, tb>>

\* the state of the stream
stream_vars == <<pc, event, es_closed, chan, rx, received, events>>

\* the request body being built
body_vars == <<request, body>>

\* a non-streaming call
call_vars == <<api, res, ret>>

\* a chunk being encoded and decoded
codec_vars == <<chunk, encoded, decoded, str>>

\* the frame being read
frame_vars == <<frame, sub>>

\* the OpenAi client being built
openai_vars == <<oab, openai, rb>>

\* the message being deserialized
message_vars == <<mjson, mvalue>>

\* the chat request being built
chatb_vars == <<ccb, given, calls, ncalls, creq>>

\* the speech request being built
speech_vars == <<sb, sreq>>

\* the audio format being converted
audio_vars == <<format, extension, mime, parsed, tb>>

\* the builders, the message and the audio format
builder_vars == <<openai_vars, message_vars, chatb_vars, speech_vars, audio_vars>>

\* the state of the calls other than the running stream
others == <<body_vars, call_vars, codec_vars, frame_vars, builder_vars>>

\* everything but the request body
body_rest == <<stream_vars, call_vars, codec_vars, frame_vars, builder_vars>>

\* everything but the non-streaming call
call_rest == <<stream_vars, body_vars, codec_vars, frame_vars, builder_vars>>

\* everything but the chunk being encoded and decoded
codec_rest == <<stream_vars, body_vars, call_vars, frame_vars, builder_vars>>

\* the calls that a frame does not touch
frame_rest == <<body_vars, call_vars, codec_vars, builder_vars>>

\* everything but the OpenAi client being built
openai_rest == <<stream_vars, body_vars, call_vars, codec_vars, frame_vars, message_vars,
                 chatb_vars, speech_vars, audio_vars>>

\* everything but the message being deserialized
message_rest == <<stream_vars, body_vars, call_vars, codec_vars, frame_vars, openai_vars,
                  chatb_vars, speech_vars, audio_vars>>

\* everything but the chat request being built
chatb_rest == <<stream_vars, body_vars, call_vars, codec_vars, frame_vars, openai_vars,
                message_vars, speech_vars, audio_vars>>

\* everything but the speech request being built
speech_rest == <<stream_vars, body_vars, call_vars, codec_vars, frame_vars, openai_vars,
                 message_vars, chatb_vars, audio_vars>>

\* everything but the audio format being converted
audio_rest == <<stream_vars, body_vars, call_vars, codec_vars, frame_vars, openai_vars,
                message_vars, chatb_vars, speech_vars>>

\* variant: the newest item overtakes the queued ones
send_front(q, json) == <<Item(json)>> \o q

\* variant: the item is queued twice
send_twice(q, json) == Append(Append(q, Item(json)), Item(json))

\* tx.send(json): appends to the queue; fails when the receiver is gone.
send(q, json) == Append(q, Item(json))

(***************************************************************************)
(* ChatCompletionRequest and its derived Serialize: messages and model are *)
(* always written, an Option field only when it is Some, openai never.     *)
(***************************************************************************)
OptionKeys == {"frequency_penalty", "logit_bias", "logprobs", "top_logprobs", "max_tokens",
               "n", "presence_penalty", "response_format", "seed", "stop", "stream",
               "temperature", "top_p", "user"}

RequestKeys == {"messages", "model"} \cup OptionKeys

\* a request whose Option fields are all None
BareRequest == [k \in RequestKeys |->
                  IF k = "messages" THEN "[user: Hi]" ELSE IF k = "model" THEN "gpt-4" ELSE NoneStr]

\* the requests a builder can produce, by the Option fields that were set
Requests ==
    { [BareRequest EXCEPT !["stream"] = st, !["max_tokens"] = mt, !["n"] = n,
                          !["temperature"] = t, !["seed"] = sd, !["user"] = u] :
        st \in {NoneStr, "true", "false"}, mt \in {NoneStr, "16"}, n \in {NoneStr, "2"},
        t \in {NoneStr, "0.5"}, sd \in {NoneStr, "7"}, u \in {NoneStr, "john"} }

\* serde_json::to_value(self), also what .json(self) writes
to_value(req) ==
    [k \in {"messages", "model"} \cup {o \in OptionKeys : req[o] # NoneStr} |-> req[k]]

\* body[key] = value on a JSON object: sets the key, inserting it if missing
IndexMut(obj, key, value) ==
    [k \in DOMAIN obj \cup {key} |-> IF k = key THEN value ELSE obj[k]]

\* the body send() posts: .json(self)
send_body(req) == to_value(req)

\* variant: the stream flag is left as the builder set it
stream_body_asbuilt(req) == to_value(req)

\* the body stream() posts: to_value(self) with body["stream"] = true
stream_body(req) == IndexMut(to_value(req), "stream", "true")

NoBody == [by |-> "none", json |-> to_value(BareRequest)]

\* no request is being sent
BodyIdle ==
    /\ request = BareRequest
    /\ body = NoBody

(***************************************************************************)
(* Non-streaming calls: ChatCompletionRequest::send, SpeechRequest::send   *)
(* and TranscribeRequest::send, and the error envelope they decode.        *)
(***************************************************************************)
Apis == {"chat", "speech", "transcribe"}

\* status codes a response can carry
Statuses == {200, 201, 204, 301, 400, 401, 404, 429, 500}

\* StatusCode::is_success()
is_success(status) == 200 <= status /\ status < 300

\* {"error": {"message": .., "param": .., "code": ..}} with NoneStr for a missing key
Envelope(message, param, code) ==
    [shape |-> "envelope", value |-> "", message |-> message, param |-> param, code |-> code]

\* a body of another shape: a completion, a transcript, audio bytes, other text
Payload(shape, value) ==
    [shape |-> shape, value |-> value, message |-> NoneStr, param |-> NoneStr, code |-> NoneStr]

Bodies ==
    { Envelope(m, p, c) : m \in {NoneStr, "bad request"}, p \in {NoneStr, "model"},
                          c \in {NoneStr, "invalid"} }
      \cup { Payload("completion", "Hello John"), Payload("transcript", "hello"),
             Payload("audio", "RIFF"), Payload("text", "<html>") }

\* req.send().await: Err when no response arrives, otherwise the response
Responses == { [arrived |-> a, status |-> st, body |-> b] :
                  a \in BOOLEAN, st \in Statuses, b \in Bodies }

NoResponse == [arrived |-> FALSE, status |-> 0, body |-> Payload("text", "")]

\* the values send() returns
Ok(value) == [tag |-> "Ok", value |-> value, message |-> NoneStr, param |-> NoneStr,
              code |-> NoneStr]

ReqwestError == [tag |-> "ReqwestError", value |-> "", message |-> NoneStr, param |-> NoneStr,
                 code |-> NoneStr]

InvalidRequestError(message, param, code) ==
    [tag |-> "InvalidRequestError", value |-> "", message |-> message, param |-> param,
     code |-> code]

NotReturned == [tag |-> "none", value |-> "", message |-> NoneStr, param |-> NoneStr,
                code |-> NoneStr]

\* res.json::<ErrorResponse>(): message is required, param and code default to None
ErrorResponse_ok(b) == b.shape = "envelope" /\ b.message # NoneStr

\* the else branch shared by the three send(): decode the envelope and map it
error_branch(r) ==
    IF ErrorResponse_ok(r.body)
      THEN InvalidRequestError(r.body.message, r.body.param, r.body.code)
      ELSE ReqwestError

\* ChatCompletionRequest::send
ChatCompletionRequest_send(r) ==
    IF ~r.arrived THEN ReqwestError
    ELSE IF is_success(r.status)
      THEN IF r.body.shape = "completion" THEN Ok(r.body.value) ELSE ReqwestError
      ELSE error_branch(r)

\* variant: the body is returned as audio without looking at the status
SpeechRequest_send_nostatus(r) ==
    IF ~r.arrived THEN ReqwestError ELSE Ok(r.body.value)

\* SpeechRequest::send: the bytes of the body on success
SpeechRequest_send(r) ==
    IF ~r.arrived THEN ReqwestError
    ELSE IF is_success(r.status)
      THEN Ok(r.body.value)
      ELSE error_branch(r)

\* TranscribeRequest::send::<TranscribeJsonResponse>
TranscribeRequest_send(r) ==
    IF ~r.arrived THEN ReqwestError
    ELSE IF is_success(r.status)
      THEN IF r.body.shape = "transcript" THEN Ok(r.body.value) ELSE ReqwestError
      ELSE error_branch(r)

\* no non-streaming call is running
CallIdle ==
    /\ api = "chat"
    /\ res = NoResponse
    /\ ret = NotReturned

(***************************************************************************)
(* One text frame of the response.  The frame is a sequence of             *)
(* sub-messages separated by blank lines; a sub-message is empty (<<>>) or *)
(* the prefix "data: " followed by a text.  The event source built by      *)
(* .eventsource() yields one Event::Message per non-empty sub-message, its *)
(* data being the text after the prefix.                                   *)
(***************************************************************************)
DataLine(text) == <<"data: ", text>>

\* the text of a sub-message with the "data: " prefix stripped
strip_prefix(m) == m[2]

SubMessages ==
    { <<>> } \cup { DataLine(t) : t \in { Raw("[DONE]"), Raw(""),
                                         Json(ChunkJson("1", "fp", <<ChoiceJson("hello")>>)),
                                         Json(ChunkJson("2", NoneStr, <<ChoiceJson("Hi")>>)) } }

\* the frames of at most MaxSubs sub-messages that start with "data: "
Frames ==
    UNION { { f \in [1..n -> SubMessages] : f[1] # <<>> } : n \in 1..MaxSubs }

\* stream() has returned: the task is spawned, nothing has been read yet
StreamInit ==
    /\ pc = "next"
    /\ event = Open
    /\ es_closed = FALSE
    /\ chan = <<>>
    /\ rx = "open"
    /\ received = <<>>
    /\ events = <<>>

\* no chunk is being encoded
CodecIdle ==
    /\ chunk = ChatCompletionChunkResponse(NoObj)
    /\ encoded = Raw("")
    /\ decoded = NotDecoded
    /\ str = NotConverted

\* no frame is followed
FrameIdle ==
    /\ frame = <<>>
    /\ sub = 0

(***************************************************************************)
(* OpenAiBuilder and OpenAi (src/src/lib.rs).  An Option field holds       *)
(* NoneStr for None.  The leaky-bucket feature is modelled as enabled;     *)
(* without it the field is absent, which is the field staying None.        *)
(***************************************************************************)
ApiKeys == {"", "sk-1", "sk-2", "sk-3"}

Clients == {"client-1", "client-2"}

Limiters == {"limiter-1", "limiter-2"}

\* OpenAiBuilder::default()
OpenAiBuilder_default == [api_key |-> NoneStr, client |-> NoneStr, leaky_bucket |-> NoneStr]

\* reqwest::Client::default()
Client_default == "client-default"

\* an OpenAi value that stands for no instance
NoOpenAi == [api_key |-> NoneStr, client |-> NoneStr, leaky_bucket |-> NoneStr]

OpenAiBuilders == [api_key : ApiKeys \cup {NoneStr}, client : Clients \cup {NoneStr},
                   leaky_bucket : Limiters \cup {NoneStr}]

\* build has not been called
NotBuilt == [tag |-> "none", error |-> NoneStr, value |-> NoOpenAi]

\* OpenAiBuilder::build
OpenAiBuilder_build(b) ==
    IF b.api_key = NoneStr
    THEN [tag |-> "Err", error |-> "ApiKeyNotSet", value |-> NoOpenAi]
    ELSE [tag |-> "Ok", error |-> NoneStr,
          value |-> [api_key |-> b.api_key,
                     client |-> IF b.client = NoneStr THEN Client_default ELSE b.client,
                     leaky_bucket |-> b.leaky_bucket]]

\* no request builder was made from the instance
NoRequestBuilder == [kind |-> "none", openai |-> NoOpenAi]

\* no OpenAi client is being built
OpenAiIdle ==
    /\ oab = OpenAiBuilder_default
    /\ openai = NotBuilt
    /\ rb = NoRequestBuilder

(***************************************************************************)
(* Message and its variants (src/src/chat/message.rs).  A JSON message is  *)
(* an object with the keys role, content, name, tool_call_id and refusal,  *)
(* NoneStr for a missing key; its content is missing, a string or an array *)
(* of content parts.                                                       *)
(***************************************************************************)
\* Role with #[serde(rename_all = "lowercase")]: variant -> JSON name
RoleNames == [System |-> "system", User |-> "user", Assistant |-> "assistant", Tool |-> "tool"]

NoContent == [shape |-> "missing", s |-> "", parts |-> <<>>]

StringContent(s) == [shape |-> "string", s |-> s, parts |-> <<>>]

ArrayContent(ms) == [shape |-> "array", s |-> "", parts |-> ms]

\* one element of a content array
Part(shape, s) == [type |-> shape, text |-> s]

MessageContents == { NoContent, StringContent("Hello John!"), ArrayContent(<<>>),
                     ArrayContent(<<Part("text", "Hi")>>),
                     ArrayContent(<<Part("text", "Hi"), Part("text", "there")>>),
                     ArrayContent(<<Part("image_url", "Hi")>>) }

\* the JSON objects given to serde_json::from_value::<Message>
MessageJsons ==
    [role : {NoneStr, "system", "user", "assistant", "tool", "developer", "System"},
     content : MessageContents,
     name : {NoneStr, "john"},
     tool_call_id : {NoneStr, "weather_123"},
     refusal : {NoneStr, JsonNull}]

\* #[serde(tag = "role")]: the tag is taken out of the object before the
\* variant's struct is deserialized from what is left
tag_removed(o) == [o EXCEPT !.role = NoneStr]

\* MultimodalContent::deserialize: #[serde(tag = "type")], the one variant Text(Text)
MultimodalContent_ok(m) == m.type = "text" /\ m.text \notin {NoneStr, JsonNull}

\* Vec<MultimodalContent>::deserialize: a sequence whose elements all deserialize
Vec_ok(c) == c.shape = "array" /\ \A i \in 1..Len(c.parts) : MultimodalContent_ok(c.parts[i])

\* SystemMessage::deserialize: role: Role and content are required fields
SystemMessage_ok(o) == o.role \in {RoleNames[r] : r \in DOMAIN RoleNames} /\ Vec_ok(o.content)

\* UserMessage::deserialize: role: Role and content are required fields
UserMessage_ok(o) == o.role \in {RoleNames[r] : r \in DOMAIN RoleNames} /\ Vec_ok(o.content)

\* AssistantMessage::deserialize: content has #[serde(default)], the others are Options
AssistantMessage_ok(o) == o.content.shape = "missing" \/ Vec_ok(o.content)

\* ToolMessage::deserialize: content and tool_call_id are required fields
ToolMessage_ok(o) == Vec_ok(o.content) /\ o.tool_call_id \notin {NoneStr, JsonNull}

\* serde_json::from_value::<Message>(o).is_ok()
Message_from_value_ok(o) ==
    \/ o.role = "system" /\ SystemMessage_ok(tag_removed(o))
    \/ o.role = "user" /\ UserMessage_ok(tag_removed(o))
    \/ o.role = "assistant" /\ AssistantMessage_ok(tag_removed(o))
    \/ o.role = "tool" /\ ToolMessage_ok(tag_removed(o))

\* the value of serde_json::from_value::<Message>(o): the variant and its struct
Message_from_value(o) ==
    [variant |-> CHOOSE r \in DOMAIN RoleNames : RoleNames[r] = o.role,
     content |-> o.content.parts,
     name |-> Option_deserialize(o.name),
     tool_call_id |-> o.tool_call_id,
     refusal |-> Option_deserialize(o.refusal)]

\* Message::role
Message_role(m) == m.variant

NoMessage == [variant |-> "System", content |-> <<>>, name |-> NoneStr,
              tool_call_id |-> NoneStr, refusal |-> NoneStr]

NoMessageJson == [role |-> NoneStr, content |-> NoContent, name |-> NoneStr,
                  tool_call_id |-> NoneStr, refusal |-> NoneStr]

\* from_value has not run
NotDeserialized == [done |-> FALSE, ok |-> FALSE, value |-> NoMessage]

\* no message is being deserialized
MessageIdle ==
    /\ mjson = NoMessageJson
    /\ mvalue = NotDeserialized

(***************************************************************************)
(* ChatCompletionRequestBuilder (src/src/chat/mod.rs).  The builder is a   *)
(* record of its fields; messages is an Option<Messages> (some, list), the *)
(* other fields hold NoneStr for None, openai holds NoOpenAi for None.     *)
(* The tools feature is off.                                               *)
(***************************************************************************)
\* Number of setter calls made on one builder before build().
MaxCalls == 4

\* Option<Messages>: None
NoMessages == [some |-> FALSE, list |-> <<>>]

\* Option<Messages>: Some(Messages(ms))
SomeMessages(ms) == [some |-> TRUE, list |-> ms]

\* ChatCompletionRequestBuilder::default()
ChatCompletionRequestBuilder_default ==
    [k \in RequestKeys \cup {"openai"} |->
        IF k = "messages" THEN NoMessages ELSE IF k = "openai" THEN NoOpenAi ELSE NoneStr]

\* the messages given to messages() and add_message()
MessageArgs == {"system: Be brief.", "user: Hi, I'm John."}

\* the lists given to messages()
MessagesArgs == { <<>>, <<"user: Hi, I'm John.">> }

\* the values given to the setter of each Option field and of model
SetterArgs(key) ==
    IF key = "model" THEN {"gpt-4", "gpt-4-1106-preview"}
    ELSE IF key = "temperature" THEN {"0.5", "1.0"}
    ELSE IF key = "stream" THEN {"true"}
    ELSE {"1"}

\* the OpenAi instances given to client() and that chat_completion() is called on
OpenAiArgs == { [api_key |-> "sk-1", client |-> Client_default, leaky_bucket |-> NoneStr] }

\* Messages::from(message): vec![value]
Messages_from(m) == <<m>>

\* Messages::push_message
push_message(ms, m) == Append(ms, m)

\* ChatCompletionRequestBuilder::messages
ChatCompletionRequestBuilder_messages(b, ms) == [b EXCEPT !["messages"] = SomeMessages(ms)]

\* variant: add_message starts a new list every time
ChatCompletionRequestBuilder_add_message_fresh(b, m) ==
    [b EXCEPT !["messages"] = SomeMessages(Messages_from(m))]

\* ChatCompletionRequestBuilder::add_message
ChatCompletionRequestBuilder_add_message(b, m) ==
    IF b["messages"].some
    THEN [b EXCEPT !["messages"] = SomeMessages(push_message(b["messages"].list, m))]
    ELSE [b EXCEPT !["messages"] = SomeMessages(Messages_from(m))]

\* ChatCompletionRequestBuilder::model, ::frequency_penalty, ... ::user:
\* self.<key> = Some(value); stream() takes no argument and stores Some(true)
ChatCompletionRequestBuilder_set(b, key, v) == [b EXCEPT ![key] = v]

\* ChatCompletionRequestBuilder::client
ChatCompletionRequestBuilder_client(b, o) == [b EXCEPT !["openai"] = o]

\* OpenAi::chat_completion
OpenAi_chat_completion(o) == [ChatCompletionRequestBuilder_default EXCEPT !["openai"] = o]

\* a ChatCompletionRequest that stands for no request
NoRequest == [k \in RequestKeys \cup {"openai"} |->
                IF k = "messages" THEN <<>> ELSE IF k = "openai" THEN NoOpenAi ELSE NoneStr]

\* Err(ChatCompletionRequestBuilderError::<e>)
BuilderErr(e) == [tag |-> "Err", error |-> e, value |-> NoRequest]

\* variant: the model is looked at before the messages
ChatCompletionRequestBuilder_build_modelfirst(b) ==
    IF b["model"] = NoneStr THEN BuilderErr("ModelNotSet")
    ELSE IF ~b["messages"].some THEN BuilderErr("MessagesNotSet")
    ELSE IF b["openai"] = NoOpenAi THEN BuilderErr("ClientNotSet")
    ELSE [tag |-> "Ok", error |-> NoneStr,
          value |-> [k \in RequestKeys \cup {"openai"} |->
                        IF k = "messages" THEN b["messages"].list ELSE b[k]]]

\* ChatCompletionRequestBuilder::build
ChatCompletionRequestBuilder_build(b) ==
    IF ~b["messages"].some THEN BuilderErr("MessagesNotSet")
    ELSE IF b["model"] = NoneStr THEN BuilderErr("ModelNotSet")
    ELSE IF b["openai"] = NoOpenAi THEN BuilderErr("ClientNotSet")
    ELSE [tag |-> "Ok", error |-> NoneStr,
          value |-> [k \in RequestKeys \cup {"openai"} |->
                        IF k = "messages" THEN b["messages"].list ELSE b[k]]]

\* build has not been called on the request builder
RequestNotBuilt == [tag |-> "none", error |-> NoneStr, value |-> NoRequest]

\* nothing was given to any setter
NothingGiven == [k \in OptionKeys \cup {"model", "openai"} |->
                    IF k = "openai" THEN NoOpenAi ELSE NoneStr]

\* a call of messages() or add_message()
MessagesCall(ms) == [op |-> "messages", arg |-> "", list |-> ms]

AddMessageCall(m) == [op |-> "add_message", arg |-> m, list |-> <<>>]

\* no chat request is being built
ChatBuilderIdle ==
    /\ ccb = ChatCompletionRequestBuilder_default
    /\ given = NothingGiven
    /\ calls = <<>>
    /\ ncalls = 0
    /\ creq = RequestNotBuilt

(***************************************************************************)
(* SpeechRequestBuilder (src/src/audio/speech.rs).  An input is kept by    *)
(* its length in bytes, a speed in hundredths (f32 holds 0.25 and 4.0      *)
(* exactly) or as NaN.                                                     *)
(***************************************************************************)
MAX_INPUT_LENGTH == 4096

\* 0.25, in hundredths
MIN_SPEED == 25

\* 4.0, in hundredths
MAX_SPEED == 400

\* Option<String>: None, and Some(input) for an input of n bytes
NoInput == [some |-> FALSE, len |-> 0]

Input(n) == [some |-> TRUE, len |-> n]

\* the byte lengths of the inputs given to input()
InputLengths == {0, 4096, 4097}

\* Option<f32>: None, Some(v) and Some(f32::NAN)
NoSpeed == [some |-> FALSE, nan |-> FALSE, hundredths |-> 0]

Speed(v) == [some |-> TRUE, nan |-> FALSE, hundredths |-> v]

NaN == [some |-> TRUE, nan |-> TRUE, hundredths |-> 0]

\* the speeds given to speed()
Speeds == { Speed(v) : v \in {-100, 24, 25, 100, 400, 401} } \cup {NaN}

\* SpeechRequestBuilder::default()
SpeechRequestBuilder_default ==
    [model |-> NoneStr, input |-> NoInput, voice |-> NoneStr, response_format |-> NoneStr,
     speed |-> NoSpeed, openai |-> NoOpenAi]

\* OpenAi::speech
OpenAi_speech(o) == [SpeechRequestBuilder_default EXCEPT !.openai = o]

\* (MIN_SPEED..=MAX_SPEED).contains(&speed): false for NaN
RangeInclusive_contains(v) == ~v.nan /\ MIN_SPEED <= v.hundredths /\ v.hundredths <= MAX_SPEED

\* a SpeechRequest that stands for no request
NoSpeechRequest == SpeechRequestBuilder_default

\* Err(SpeechRequestBuilderError::<e>)
SpeechErr(e) == [tag |-> "Err", error |-> e, value |-> NoSpeechRequest]

\* the thread panicked inside build: Option::unwrap() on a None value
SpeechPanic == [tag |-> "panic", error |-> NoneStr, value |-> NoSpeechRequest]

\* variant: the ends of the speed range are rejected
SpeechRequestBuilder_build_exclusive(b) ==
    IF ~b.input.some THEN SpeechPanic
    ELSE IF b.input.len > MAX_INPUT_LENGTH THEN SpeechErr("TextTooLong")
    ELSE IF b.speed.some /\ ~(RangeInclusive_contains(b.speed)
                               /\ b.speed.hundredths # MIN_SPEED
                               /\ b.speed.hundredths # MAX_SPEED)
         THEN SpeechErr("SpeedOutOfRange")
    ELSE IF b.model = NoneStr THEN SpeechErr("ModelNotSet")
    ELSE IF ~b.input.some THEN SpeechErr("InputNotSet")
    ELSE IF b.voice = NoneStr THEN SpeechErr("VoiceNotSet")
    ELSE IF b.response_format = NoneStr THEN SpeechErr("ResponseFormatNotSet")
    ELSE IF b.openai = NoOpenAi THEN SpeechErr("ClientNotSet")
    ELSE [tag |-> "Ok", error |-> NoneStr, value |-> b]

\* SpeechRequestBuilder::build
SpeechRequestBuilder_build(b) ==
    IF ~b.input.some THEN SpeechPanic
    ELSE IF b.input.len > MAX_INPUT_LENGTH THEN SpeechErr("TextTooLong")
    ELSE IF b.speed.some /\ ~RangeInclusive_contains(b.speed) THEN SpeechErr("SpeedOutOfRange")
    ELSE IF b.model = NoneStr THEN SpeechErr("ModelNotSet")
    ELSE IF ~b.input.some THEN SpeechErr("InputNotSet")
    ELSE IF b.voice = NoneStr THEN SpeechErr("VoiceNotSet")
    ELSE IF b.response_format = NoneStr THEN SpeechErr("ResponseFormatNotSet")
    ELSE IF b.openai = NoOpenAi THEN SpeechErr("ClientNotSet")
    ELSE [tag |-> "Ok", error |-> NoneStr, value |-> b]

\* build has not been called on the speech builder
SpeechNotBuilt == [tag |-> "none", error |-> NoneStr, value |-> NoSpeechRequest]

\* no speech request is being built
SpeechBuilderIdle ==
    /\ sb = SpeechRequestBuilder_default
    /\ sreq = SpeechNotBuilt

(***************************************************************************)
(* AudioFormat and TranscribeRequestBuilder::audio                         *)
(* (src/src/audio/transcription.rs).  An Option<AudioFormat> holds NoneStr *)
(* for None and the variant's name for Some(variant).                      *)
(***************************************************************************)
AudioFormats == {"Mp3", "Mp4", "Flac", "Mpeg", "Mpga", "M4a", "Ogg", "Wav", "Webm"}

\* AudioFormat::to_mime
AudioFormat_to_mime(f) ==
    CASE f = "Mp3" -> "audio/mpeg"
      [] f = "Mp4" -> "audio/mp4"
      [] f = "Flac" -> "audio/flac"
      [] f = "Mpeg" -> "audio/mpeg"
      [] f = "Mpga" -> "audio/mpeg"
      [] f = "M4a" -> "audio/mp4"
      [] f = "Ogg" -> "audio/ogg"
      [] f = "Wav" -> "audio/wav"
      [] f = "Webm" -> "audio/webm"

\* AudioFormat::to_extension
AudioFormat_to_extension(f) ==
    CASE f = "Mp3" -> "mp3"
      [] f = "Mp4" -> "mp4"
      [] f = "Flac" -> "flac"
      [] f = "Mpeg" -> "mpeg"
      [] f = "Mpga" -> "mpga"
      [] f = "M4a" -> "m4a"
      [] f = "Ogg" -> "ogg"
      [] f = "Wav" -> "wav"
      [] f = "Webm" -> "webm"

\* variant: "mpga" is read as the format of its container
AudioFormat_from_extension_container(s) ==
    CASE s = "mp3" -> "Mp3"
      [] s = "mp4" -> "Mp4"
      [] s = "flac" -> "Flac"
      [] s = "mpeg" -> "Mpeg"
      [] s = "mpga" -> "Mpeg"
      [] s = "m4a" -> "M4a"
      [] s = "ogg" -> "Ogg"
      [] s = "wav" -> "Wav"
      [] s = "webm" -> "Webm"
      [] OTHER -> NoneStr

\* AudioFormat::from_extension
AudioFormat_from_extension(s) ==
    CASE s = "mp3" -> "Mp3"
      [] s = "mp4" -> "Mp4"
      [] s = "flac" -> "Flac"
      [] s = "mpeg" -> "Mpeg"
      [] s = "mpga" -> "Mpga"
      [] s = "m4a" -> "M4a"
      [] s = "ogg" -> "Ogg"
      [] s = "wav" -> "Wav"
      [] s = "webm" -> "Webm"
      [] OTHER -> NoneStr

\* the strings given to from_extension that no format writes
OtherExtensions == {"", "MP3", "mp", "mp33", "wave", "aac", "txt", "audio/mpeg"}

\* file names given to audio(), as file.split('.') yields them
Paths == { <<"talk", "mp3">>, <<"talk">>, <<"talk", "tar", "ogg">>, <<"talk", "MP3">>,
           <<"talk", "m4a">> }

\* file.split('.').last().unwrap()
split_last(ms) == ms[Len(ms)]

\* TranscribeRequestBuilder::default(), by its audio and format fields
TranscribeRequestBuilder_default == [audio |-> NoneStr, format |-> NoneStr, panicked |-> FALSE]

\* TranscribeRequestBuilder::audio on Audio::Bytes
TranscribeRequestBuilder_audio_bytes(b) == [b EXCEPT !.audio = "bytes"]

\* TranscribeRequestBuilder::audio on Audio::File: the file is read (ok tells
\* whether it could be) and the format is taken from the extension
TranscribeRequestBuilder_audio_file(b, ms, ok) ==
    IF ~ok \/ AudioFormat_from_extension(split_last(ms)) = NoneStr
    THEN [b EXCEPT !.panicked = TRUE]
    ELSE [b EXCEPT !.format = AudioFormat_from_extension(split_last(ms)),
                   !.audio = "file bytes"]

\* TranscribeRequestBuilder::format
TranscribeRequestBuilder_format(b, f) == [b EXCEPT !.format = f]

\* from_extension has not been called
NotParsed == [done |-> FALSE, value |-> NoneStr]

\* no audio format is being converted
AudioIdle ==
    /\ format = NoneStr
    /\ extension = NoneStr
    /\ mime = NoneStr
    /\ parsed = NotParsed
    /\ tb = TranscribeRequestBuilder_default

\* no builder is in use
BuildersIdle ==
    /\ OpenAiIdle
    /\ MessageIdle
    /\ ChatBuilderIdle
    /\ SpeechBuilderIdle
    /\ AudioIdle

Init ==
    /\ StreamInit
    /\ BodyIdle
    /\ CallIdle
    /\ CodecIdle
    /\ FrameIdle
    /\ BuildersIdle

\* es.next().await yields Some(e)
EsNext(e) ==
    /\ pc = "next"
    /\ ~es_closed
    /\ Len(events) < MaxEvents
    /\ event' = e
    /\ events' = Append(events, e)
    /\ es_closed' = (e.kind = "Err" /\ e.fatal)
    /\ pc' = "match"
    /\ UNCHANGED <<chan, rx, received>>
    /\ UNCHANGED others

\* variant: the loop does not end when the event source is closed
EsNone_spin ==
    /\ pc = "next"
    /\ es_closed
    /\ UNCHANGED vars

\* es.next().await yields None: the loop and the task end, tx is dropped
EsNone ==
    /\ pc = "next"
    /\ es_closed
    /\ pc' = "exited"
    /\ UNCHANGED <<event, es_closed, chan, rx, received, events>>
    /\ UNCHANGED others

\* variant: the sentinel arm without es.close()
MatchDone_noclose ==
    /\ pc = "match"
    /\ event.kind = "Message"
    /\ event.data = Raw("[DONE]")
    /\ pc' = "next"
    /\ UNCHANGED <<event, es_closed, chan, rx, received, events>>
    /\ UNCHANGED others

\* "[DONE]" => es.close()
MatchDone ==
    /\ pc = "match"
    /\ event.kind = "Message"
    /\ event.data = Raw("[DONE]")
    /\ es_closed' = TRUE
    /\ pc' = "next"
    /\ UNCHANGED <<event, chan, rx, received, events>>
    /\ UNCHANGED others

\* variant: empty data treated like the sentinel
MatchEmpty_close ==
    /\ pc = "match"
    /\ event.kind = "Message"
    /\ event.data = Raw("")
    /\ es_closed' = TRUE
    /\ pc' = "next"
    /\ UNCHANGED <<event, chan, rx, received, events>>
    /\ UNCHANGED others

\* "" => {}
MatchEmpty ==
    /\ pc = "match"
    /\ event.kind = "Message"
    /\ event.data = Raw("")
    /\ pc' = "next"
    /\ UNCHANGED <<event, es_closed, chan, rx, received, events>>
    /\ UNCHANGED others

\* data => if let Ok(json) = from_str(data) { tx.send(json).unwrap() }
MatchDataOk ==
    /\ pc = "match"
    /\ event.kind = "Message"
    /\ event.data \notin {Raw("[DONE]"), Raw("")}
    /\ from_str_ok(event.data)
    /\ IF rx = "dropped"
         THEN /\ pc' = "panicked"
              /\ chan' = chan
         ELSE /\ pc' = "next"
              /\ chan' = send(chan, from_str(event.data))
    /\ UNCHANGED <<event, es_closed, rx, received, events>>
    /\ UNCHANGED others

\* variant: a payload that does not decode closes the event source
MatchDataErr_close ==
    /\ pc = "match"
    /\ event.kind = "Message"
    /\ event.data \notin {Raw("[DONE]"), Raw("")}
    /\ ~from_str_ok(event.data)
    /\ es_closed' = TRUE
    /\ pc' = "next"
    /\ UNCHANGED <<event, chan, rx, received, events>>
    /\ UNCHANGED others

\* data => ... else { println!("err: {:#?}", msg) }
MatchDataErr ==
    /\ pc = "match"
    /\ event.kind = "Message"
    /\ event.data \notin {Raw("[DONE]"), Raw("")}
    /\ ~from_str_ok(event.data)
    /\ pc' = "next"
    /\ UNCHANGED <<event, es_closed, chan, rx, received, events>>
    /\ UNCHANGED others

\* Err(err) => println!("err: {:#?}", err)
MatchErr ==
    /\ pc = "match"
    /\ event.kind = "Err"
    /\ pc' = "next"
    /\ UNCHANGED <<event, es_closed, chan, rx, received, events>>
    /\ UNCHANGED others

\* _ => {}   (Event::Open)
MatchOther ==
    /\ pc = "match"
    /\ event.kind = "Open"
    /\ pc' = "next"
    /\ UNCHANGED <<event, es_closed, chan, rx, received, events>>
    /\ UNCHANGED others

\* the consumer's rx.next().await yields Some(item)
Recv ==
    /\ rx = "open"
    /\ chan # <<>>
    /\ received' = Append(received, Head(chan))
    /\ chan' = Tail(chan)
    /\ UNCHANGED <<pc, event, es_closed, rx, events>>
    /\ UNCHANGED others

\* the consumer's rx.next().await yields None: queue empty and tx dropped
RecvNone ==
    /\ rx = "open"
    /\ chan = <<>>
    /\ pc \in {"exited", "panicked"}
    /\ rx' = "ended"
    /\ UNCHANGED <<pc, event, es_closed, chan, received, events>>
    /\ UNCHANGED others

\* the consumer drops the UnboundedReceiverStream; queued items are discarded
DropRx ==
    /\ rx = "open"
    /\ rx' = "dropped"
    /\ chan' = <<>>
    /\ UNCHANGED <<pc, event, es_closed, received, events>>
    /\ UNCHANGED others

Producer ==
    \/ EsNone
    \/ MatchDone
    \/ MatchEmpty
    \/ MatchDataOk
    \/ MatchDataErr
    \/ MatchErr
    \/ MatchOther

Next ==
    \/ \E e \in Events : EsNext(e)
    \/ EsNone
    \/ MatchDone
    \/ MatchEmpty
    \/ MatchDataOk
    \/ MatchDataErr
    \/ MatchErr
    \/ MatchOther
    \/ Recv
    \/ RecvNone
    \/ DropRx

Spec == Init /\ [][Next]_vars

\* The runtime keeps polling the spawned task and the consumer keeps pulling;
\* the server is not obliged to send anything.
FairSpec == Spec /\ WF_vars(Producer) /\ WF_vars(Recv) /\ WF_vars(RecvNone)

(***************************************************************************)
(* The request body: a built request is posted by send() or by stream().   *)
(***************************************************************************)
BodyInit ==
    /\ StreamInit
    /\ CallIdle
    /\ CodecIdle
    /\ FrameIdle
    /\ BuildersIdle
    /\ request \in Requests
    /\ body = NoBody

\* send(): .post(&url).bearer_auth(..).json(self)
SendPosts ==
    /\ body.by = "none"
    /\ body' = [by |-> "send", json |-> send_body(request)]
    /\ UNCHANGED <<request, body_rest>>

\* stream(): .post(url).bearer_auth(..).json(&body)
StreamPosts ==
    /\ body.by = "none"
    /\ body' = [by |-> "stream", json |-> stream_body(request)]
    /\ UNCHANGED <<request, body_rest>>

BodyNext ==
    \/ SendPosts
    \/ StreamPosts

BodySpec == BodyInit /\ [][BodyNext]_vars

(***************************************************************************)
(* A non-streaming call: the request is sent, a response (or none) comes   *)
(* back and send() returns.                                                *)
(***************************************************************************)
CallInit ==
    /\ StreamInit
    /\ BodyIdle
    /\ CodecIdle
    /\ FrameIdle
    /\ BuildersIdle
    /\ api \in Apis
    /\ res \in Responses
    /\ ret = NotReturned

ChatSend ==
    /\ api = "chat"
    /\ ret = NotReturned
    /\ ret' = ChatCompletionRequest_send(res)
    /\ UNCHANGED <<api, res, call_rest>>

SpeechSend ==
    /\ api = "speech"
    /\ ret = NotReturned
    /\ ret' = SpeechRequest_send(res)
    /\ UNCHANGED <<api, res, call_rest>>

TranscribeSend ==
    /\ api = "transcribe"
    /\ ret = NotReturned
    /\ ret' = TranscribeRequest_send(res)
    /\ UNCHANGED <<api, res, call_rest>>

CallNext ==
    \/ ChatSend
    \/ SpeechSend
    \/ TranscribeSend

CallSpec == CallInit /\ [][CallNext]_vars

(***************************************************************************)
(* A chunk value is written as JSON and the JSON is read back.             *)
(***************************************************************************)
CodecInit ==
    /\ StreamInit
    /\ BodyIdle
    /\ CallIdle
    /\ FrameIdle
    /\ BuildersIdle
    /\ chunk \in ChunkValues
    /\ encoded = Raw("")
    /\ decoded = NotDecoded
    /\ str = NotConverted

\* serde_json::to_string(&chunk)
Encode ==
    /\ encoded = Raw("")
    /\ encoded' = to_string(chunk)
    /\ UNCHANGED <<chunk, decoded, str, codec_rest>>

\* serde_json::from_str::<ChatCompletionChunkResponse>(&encoded)
Decode ==
    /\ encoded # Raw("")
    /\ ~decoded.done
    /\ decoded' = [done |-> TRUE, ok |-> from_str_ok(encoded),
                   value |-> IF from_str_ok(encoded) THEN from_str(encoded)
                                                     ELSE ChatCompletionChunkResponse(NoObj)]
    /\ UNCHANGED <<chunk, encoded, str, codec_rest>>

\* String::from(chunk)
IntoString ==
    /\ ~str.done
    /\ str' = [done |-> TRUE, s |-> String_from(chunk)]
    /\ UNCHANGED <<chunk, encoded, decoded, codec_rest>>

CodecNext ==
    \/ Encode
    \/ Decode
    \/ IntoString

CodecSpec == CodecInit /\ [][CodecNext]_vars

(***************************************************************************)
(* The stream reading one text frame.                                      *)
(***************************************************************************)
FrameInit ==
    /\ StreamInit
    /\ BodyIdle
    /\ CallIdle
    /\ CodecIdle
    /\ BuildersIdle
    /\ frame \in Frames
    /\ sub = 0

\* es.next().await yields the message of the next sub-message
FrameEvent ==
    /\ pc = "next"
    /\ ~es_closed
    /\ sub < Len(frame)
    /\ frame[sub + 1] # <<>>
    /\ sub' = sub + 1
    /\ event' = Message(strip_prefix(frame[sub + 1]))
    /\ events' = Append(events, event')
    /\ pc' = "match"
    /\ UNCHANGED <<es_closed, chan, rx, received, frame, frame_rest>>

\* an empty sub-message dispatches no event
FrameSkip ==
    /\ pc = "next"
    /\ ~es_closed
    /\ sub < Len(frame)
    /\ frame[sub + 1] = <<>>
    /\ sub' = sub + 1
    /\ UNCHANGED <<stream_vars, frame, frame_rest>>

FrameNext ==
    \/ FrameEvent
    \/ FrameSkip
    \/ EsNone
    \/ MatchDone
    \/ MatchEmpty
    \/ MatchDataOk
    \/ MatchDataErr
    \/ Recv
    \/ RecvNone

FrameSpec == FrameInit /\ [][FrameNext]_vars

TypeOK ==
    /\ pc \in {"next", "match", "exited", "panicked"}
    /\ event.kind \in {"Open", "Message", "Err"}
    /\ event.fatal \in BOOLEAN
    /\ es_closed \in BOOLEAN
    /\ rx \in {"open", "ended", "dropped"}
    /\ Len(events) <= MaxEvents
    /\ oab \in OpenAiBuilders
    /\ openai.tag \in {"none", "Ok", "Err"}
    /\ creq.tag \in {"none", "Ok", "Err"}
    /\ ncalls \in 0..MaxCalls
    /\ sreq.tag \in {"none", "Ok", "Err", "panic"}
    /\ format \in AudioFormats \cup {NoneStr}
    /\ tb.format \in AudioFormats \cup {NoneStr}
    /\ mvalue.done \in BOOLEAN

(***************************************************************************)
(* History operators used by the properties.                               *)
(***************************************************************************)
\* the events the task has already matched
Handled == IF pc = "match" THEN SubSeq(events, 1, Len(events) - 1) ELSE events

IsSentinel(e) == e.kind = "Message" /\ e.data.raw /\ e.data.s = "[DONE]"

IsEmptyData(e) == e.kind = "Message" /\ e.data.raw /\ e.data.s = ""

\* a message that is neither the sentinel nor empty
IsPayload(e) == e.kind = "Message" /\ ~IsSentinel(e) /\ ~IsEmptyData(e)

\* a message whose data has every key a chunk requires
WellFormed(e) ==
    /\ IsPayload(e)
    /\ ~e.data.raw
    /\ \A k \in {"id", "object", "created", "model", "system_fingerprint"} :
          e.data.obj[k] # NoneStr

\* item i is the chunk of payload o, key by key
IsChunkOf(i, o) ==
    /\ i.tag = "Chunk"
    /\ i.chunk.id = o.id
    /\ i.chunk.object = o.object
    /\ i.chunk.created = o.created
    /\ i.chunk.model = o.model
    /\ i.chunk.system_fingerprint = o.system_fingerprint
    /\ Len(i.chunk.choices) = Len(o.choices)
    /\ \A n \in 1..Len(o.choices) :
          /\ i.chunk.choices[n].index = o.choices[n].index
          /\ i.chunk.choices[n].delta.content = o.choices[n].content
          /\ i.chunk.choices[n].finish_reason = o.choices[n].finish_reason
          /\ i.chunk.choices[n].logprobs = o.choices[n].logprobs

\* the well-formed chunk events of evs, in arrival order
ChunkEvents(evs) == SelectSeq(evs, WellFormed)

\* the items handed to the consumer so far or still queued
Sent == received \o chan

\* Sent is, position by position, the chunks of the well-formed events of evs
MatchesEvents(items, evs) ==
    /\ Len(items) = Len(ChunkEvents(evs))
    /\ \A n \in 1..Len(items) : IsChunkOf(items[n], ChunkEvents(evs)[n].data.obj)

\* the step in which the task matches the event it holds
Matches == pc = "match" /\ pc' # "match"

\* C1: a message whose data is "[DONE]" yields no item, and from then on the
\* consumer, once it has drained the queue, gets end-of-stream (unless it
\* dropped the stream itself).
C1_SentinelEndsStream ==
    /\ [][(Matches /\ IsSentinel(event)) => (chan' = chan /\ received' = received)]_vars
    /\ ((pc = "match" /\ IsSentinel(event) /\ rx = "open") ~> (rx \in {"ended", "dropped"}))

C1_Witness ==
    /\ rx = "ended"
    /\ Len(events) >= 2
    /\ IsSentinel(events[Len(events)])
    /\ Len(received) = Len(events) - 1

\* C2: matching a well-formed chunk payload puts exactly one item on the
\* channel, and that item is the chunk of exactly that payload.
C2_OneItemPerChunk ==
    [][(Matches /\ WellFormed(event) /\ rx # "dropped") =>
          /\ Len(chan') = Len(chan) + 1
          /\ SubSeq(chan', 1, Len(chan)) = chan
          /\ IsChunkOf(chan'[Len(chan')], event.data.obj)
          /\ received' = received]_vars

C2_Witness ==
    /\ pc = "next"
    /\ Len(events) >= 1
    /\ WellFormed(events[Len(events)])
    /\ Len(events[Len(events)].data.obj.choices) = 2
    /\ chan # <<>>
    /\ IsChunkOf(chan[Len(chan)], events[Len(events)].data.obj)

\* C3: whatever the interleaving, what the consumer has received is a prefix
\* of the chunks of the handled events in arrival order; with the queue it is
\* all of them, each once; at end-of-stream the consumer has all of them.
C3_OrderedExactlyOnce ==
    /\ Len(received) <= Len(ChunkEvents(Handled))
    /\ \A n \in 1..Len(received) : IsChunkOf(received[n], ChunkEvents(Handled)[n].data.obj)
    /\ (rx # "dropped" => MatchesEvents(Sent, Handled))
    /\ (rx = "ended" => MatchesEvents(received, events))

C3_Witness ==
    /\ Len(received) >= 1
    /\ Len(chan) >= 2
    /\ received[1] # chan[1]
    /\ chan[1] # chan[2]

\* C4: an event whose JSON does not decode as a chunk is handed to the
\* consumer as a decode-error item.
C4_DecodeErrorDelivered ==
    [][(Matches /\ IsPayload(event) /\ ~event.data.raw /\ ~WellFormed(event) /\ rx = "open") =>
          /\ Len(chan') = Len(chan) + 1
          /\ chan'[Len(chan')].tag = "DecodeError"]_vars

\* C5: matching an event that does not decode leaves the loop running and
\* the event source open, and every well-formed chunk that arrives after it
\* has reached the consumer when the stream ends.
C5_BadEventKeepsStream ==
    /\ [][(Matches /\ IsPayload(event) /\ ~WellFormed(event)) =>
             (pc' = "next" /\ ~es_closed' /\ chan' = chan)]_vars
    /\ [](rx = "ended" =>
             \A j \in 1..Len(events) :
                (WellFormed(events[j]) /\ \E i \in 1..(j - 1) : IsPayload(events[i]) /\ ~WellFormed(events[i]))
                   => \E n \in 1..Len(received) : IsChunkOf(received[n], events[j].data.obj))

C5_Witness ==
    /\ rx = "ended"
    /\ Len(events) = 3
    /\ IsPayload(events[1]) /\ ~WellFormed(events[1])
    /\ WellFormed(events[2])
    /\ Len(received) = 1
    /\ IsChunkOf(received[1], events[2].data.obj)

\* C6: when the transport fails after k chunks, the consumer's sequence is
\* those k chunks, then one transport-error item, then end-of-stream.
C6_TransportErrorItem ==
    (rx = "ended" /\ events # <<>> /\ events[Len(events)] = Err(TRUE)) =>
        /\ Len(received) = Len(ChunkEvents(events)) + 1
        /\ received[Len(received)].tag = "TransportError"

\* C7: a decoded chunk is withheld exactly when every one of its choices has
\* a delta content that is present and empty.
AllContentEmpty(o) == \A n \in 1..Len(o.choices) : o.choices[n].content = ""

C7_EmptyDeltaSuppressed ==
    [][(Matches /\ WellFormed(event) /\ rx = "open") =>
          (chan' = chan <=> AllContentEmpty(event.data.obj))]_vars

\* C8: an event with empty data yields no item and does not end the stream:
\* the loop goes on to the next event with the event source as it was.
C8_EmptyDataIgnored ==
    [][(Matches /\ IsEmptyData(event)) =>
          /\ chan' = chan
          /\ received' = received
          /\ pc' = "next"
          /\ es_closed' = es_closed
          /\ ~es_closed']_vars

C8_Witness ==
    /\ Len(events) = 2
    /\ IsEmptyData(events[1])
    /\ WellFormed(events[2])
    /\ Len(received) = 1
    /\ IsChunkOf(received[1], events[2].data.obj)

\* C9: a non-empty text that is not an event payload yields exactly one
\* malformed-event item whose message is "Invalid event data: " and the text.
C9_MalformedEventItem ==
    [][(Matches /\ IsPayload(event) /\ event.data.raw /\ rx = "open") =>
          /\ Len(chan') = Len(chan) + 1
          /\ chan'[Len(chan')].tag = "MalformedEvent"
          /\ chan'[Len(chan')].message = <<"Invalid event data: ", event.data.s>>
          /\ pc' = "next"]_vars

\* C10: once the sentinel has arrived or the event source has closed (the
\* connection ended or failed for good), the task ends and the consumer gets
\* end-of-stream (unless it dropped the stream itself); the sequence received
\* is never longer than the events that arrived.
Ending == es_closed \/ \E i \in 1..Len(events) : IsSentinel(events[i])

SentinelSeen == \E i \in 1..Len(events) : IsSentinel(events[i])

C11_NothingAfterSentinel ==
    /\ [][SentinelSeen => (events' = events /\ Len(chan') <= Len(chan))]_vars
    /\ [](\A i \in 1..Len(events) : IsSentinel(events[i]) => i = Len(events))
    /\ [](SentinelSeen /\ pc \notin {"match", "panicked"} => es_closed)

C11_Witness ==
    /\ SentinelSeen
    /\ pc = "exited"
    /\ Len(events) < MaxEvents
    /\ Len(received) >= 1

\* C12: when the consumer has dropped the receiving side, the task ends with
\* the first event it matches afterwards, whatever that event is.
C12_DropEndsTask ==
    [][(Matches /\ rx = "dropped") => pc' \in {"exited", "panicked"}]_vars

\* C13 as claimed: at most one item is ever queued between task and consumer.
C13_AtMostOneBuffered == Len(chan) <= 1

\* C13 as amended: the queue holds exactly the chunks sent and not yet
\* pulled, so its length is bounded by the chunk events handled so far minus
\* the items already received, and by nothing smaller.
C13_BufferedAreUnreceived ==
    /\ Len(chan) <= Len(ChunkEvents(Handled)) - Len(received)
    /\ (rx = "open" => Len(chan) = Len(ChunkEvents(Handled)) - Len(received))

C13_Witness ==
    /\ rx = "open"
    /\ Len(chan) >= 2
    /\ received = <<>>

\* C14: a stream moves Connecting -> Streaming -> {Done | Errored}; Streaming
\* loops on each event; Done and Errored are left by no transition; Errored
\* is entered only on an unrecoverable transport failure.
FatalSeen == \E i \in 1..Len(events) : events[i] = Err(TRUE)

StreamState ==
    CASE pc = "panicked" -> "Errored"
      [] pc = "exited" -> IF FatalSeen THEN "Errored" ELSE "Done"
      [] pc \in {"next", "match"} /\ events = <<>> -> "Connecting"
      [] OTHER -> "Streaming"

StreamEdges == { <<"Connecting", "Connecting">>, <<"Connecting", "Streaming">>,
                 <<"Streaming", "Streaming">>, <<"Streaming", "Done">>,
                 <<"Streaming", "Errored">>, <<"Done", "Done">>, <<"Errored", "Errored">> }

StreamStep == <<StreamState, StreamState'>> \in StreamEdges

C14_StateMachine ==
    /\ [][StreamStep]_vars
    /\ [](StreamState = "Errored" => FatalSeen)

\* C15: a call opens exactly one connection: no event is read from the event
\* source after it has reported a transport error or the end of the
\* connection (every such event comes from a re-issued request).
Connections(evs) == 1 + Cardinality({i \in 1..(Len(evs) - 1) : evs[i].kind = "Err"})

C15_OneConnection == Connections(events) = 1

\* C19: a payload with id, object, created, model and choices is decoded and
\* put on the channel whether or not system_fingerprint (or a choice's
\* content, finish_reason, logprobs) is present.
HasRequiredKeys(e) ==
    /\ IsPayload(e)
    /\ ~e.data.raw
    /\ \A k \in {"id", "object", "created", "model"} : e.data.obj[k] # NoneStr

C19_OptionalFieldsDecoded ==
    [][(Matches /\ HasRequiredKeys(event) /\ rx = "open") =>
          /\ Len(chan') = Len(chan) + 1
          /\ chan'[Len(chan')].tag = "Chunk"
          /\ chan'[Len(chan')].chunk.id = event.data.obj.id]_vars

\* C20: the body stream() posts carries stream = true whatever the builder's
\* stream flag was, and has every other key exactly as send() writes it.
C20_StreamFlagForced ==
    body.by = "stream" =>
        /\ "stream" \in DOMAIN body.json
        /\ body.json["stream"] = "true"
        /\ DOMAIN body.json \ {"stream"} = DOMAIN send_body(request) \ {"stream"}
        /\ \A k \in DOMAIN body.json \ {"stream"} : body.json[k] = request[k]
        /\ \A k \in OptionKeys \ {"stream"} : (k \in DOMAIN body.json <=> request[k] # NoneStr)

C20_Witness ==
    /\ body.by = "stream"
    /\ request["stream"] = "false"
    /\ request["user"] = "john"
    /\ request["seed"] = NoneStr

\* C17: a non-streaming call returns the decoded body when the status is a
\* success; on another status with a decodable error envelope it returns
\* InvalidRequestError with the envelope's message, param and code; it never
\* returns Ok for a status that is not a success.
SuccessStatus == res.status \in 200..299

\* the body decodes as the value this call returns on success
DecodesFor(a, b) ==
    \/ a = "chat" /\ b.shape = "completion"
    \/ a = "transcribe" /\ b.shape = "transcript"
    \/ a = "speech"

C17_SendMapsStatus ==
    (ret # NotReturned /\ res.arrived) =>
        /\ (SuccessStatus /\ DecodesFor(api, res.body)) =>
              (ret.tag = "Ok" /\ ret.value = res.body.value)
        /\ (~SuccessStatus /\ res.body.shape = "envelope" /\ res.body.message # NoneStr) =>
              /\ ret.tag = "InvalidRequestError"
              /\ ret.message = res.body.message
              /\ ret.param = res.body.param
              /\ ret.code = res.body.code
        /\ (ret.tag = "Ok" => SuccessStatus)

C17_Witness ==
    /\ api = "speech"
    /\ res.arrived
    /\ res.status = 429
    /\ res.body = Envelope("bad request", NoneStr, "invalid")
    /\ ret = InvalidRequestError("bad request", NoneStr, "invalid")

\* C18: encoding any chunk value to JSON and decoding the result gives a
\* chunk equal to the original, field for field.
C18_RoundTrip ==
    decoded.done =>
        /\ decoded.ok
        /\ decoded.value.id = chunk.id
        /\ decoded.value.created = chunk.created
        /\ decoded.value.model = chunk.model
        /\ decoded.value.system_fingerprint = chunk.system_fingerprint
        /\ decoded.value.object = chunk.object
        /\ Len(decoded.value.choices) = Len(chunk.choices)
        /\ \A n \in 1..Len(chunk.choices) :
              /\ decoded.value.choices[n].index = chunk.choices[n].index
              /\ decoded.value.choices[n].delta.content = chunk.choices[n].delta.content
              /\ decoded.value.choices[n].finish_reason = chunk.choices[n].finish_reason
              /\ decoded.value.choices[n].logprobs = chunk.choices[n].logprobs

\* C16: the candidate events of a frame.  A candidate event is a message the
\* loop received other than the sentinel; its text is the message's data.
NotSentinel(e) == e.kind = "Message" /\ ~IsSentinel(e)

Candidates == [n \in 1..Len(SelectSeq(events, NotSentinel)) |->
                 SelectSeq(events, NotSentinel)[n].data]

\* a sub-message that is neither empty nor "data: [DONE]"
IsCandidateSub(m) == m # <<>> /\ m # DataLine(Raw("[DONE]"))

Stripped(ms) == [n \in 1..Len(ms) |-> ms[n][2]]

\* the sub-messages in front of the first "data: [DONE]"
BeforeSentinel(f) ==
    LET at == {n \in 1..Len(f) : f[n] = DataLine(Raw("[DONE]"))}
    IN  IF at = {} THEN f
        ELSE SubSeq(f, 1, (CHOOSE n \in at : \A k \in at : n <= k) - 1)

\* the frame has been read as far as it will ever be
FrameDone == pc \in {"next", "exited"} /\ (sub = Len(frame) \/ es_closed)

C23_NeverPanics == pc # "panicked"

(***************************************************************************)
(* C29: converting a chunk to a String yields the concatenation of its     *)
(* choices' delta contents in choice-list order, an absent content         *)
(* contributing the empty string; a chunk with no choices converts to the  *)
(* empty string.                                                           *)
(***************************************************************************)
\* what the i-th choice contributes
Contribution(i) ==
    IF chunk.choices[i].delta.content = NoneStr THEN "" ELSE chunk.choices[i].delta.content

C29_ChunkToString ==
    str.done =>
        /\ Len(chunk.choices) = 0 => str.s = ""
        /\ Len(chunk.choices) = 1 => str.s = Contribution(1)
        /\ Len(chunk.choices) = 2 => str.s = Contribution(1) \o Contribution(2)
        /\ Len(chunk.choices) <= 2

\* a chunk with two choices of different, non-empty contents was converted
C29_Witness ==
    /\ str.done
    /\ Len(chunk.choices) = 2
    /\ chunk.choices[1].delta.content = "hello"
    /\ chunk.choices[2].delta.content = "Hi"
    /\ str.s = "helloHi"

(***************************************************************************)
(* An OpenAi client is configured and built, and request builders are made *)
(* from it.                                                                *)
(***************************************************************************)
OpenAiInit ==
    /\ StreamInit
    /\ BodyIdle
    /\ CallIdle
    /\ CodecIdle
    /\ FrameIdle
    /\ OpenAiIdle
    /\ MessageIdle
    /\ ChatBuilderIdle
    /\ SpeechBuilderIdle
    /\ AudioIdle

\* OpenAiBuilder::api_key
OpenAiApiKey(k) ==
    /\ openai = NotBuilt
    /\ oab' = [oab EXCEPT !.api_key = k]
    /\ UNCHANGED <<openai, rb, openai_rest>>

\* OpenAiBuilder::client
OpenAiClient(k) ==
    /\ openai = NotBuilt
    /\ oab' = [oab EXCEPT !.client = k]
    /\ UNCHANGED <<openai, rb, openai_rest>>

\* OpenAiBuilder::limiter
OpenAiLimiter(k) ==
    /\ openai = NotBuilt
    /\ oab' = [oab EXCEPT !.leaky_bucket = k]
    /\ UNCHANGED <<openai, rb, openai_rest>>

\* OpenAiBuilder::build
OpenAiBuild ==
    /\ openai = NotBuilt
    /\ openai' = OpenAiBuilder_build(oab)
    /\ UNCHANGED <<oab, rb, openai_rest>>

\* OpenAi::chat_completion: a builder whose openai is Some(self.clone())
OpenAiChatCompletion ==
    /\ openai.tag = "Ok"
    /\ rb = NoRequestBuilder
    /\ rb' = [kind |-> "chat", openai |-> openai.value]
    /\ UNCHANGED <<oab, openai, openai_rest>>

\* OpenAi::speech: a builder whose openai is Some(self.clone())
OpenAiSpeech ==
    /\ openai.tag = "Ok"
    /\ rb = NoRequestBuilder
    /\ rb' = [kind |-> "speech", openai |-> openai.value]
    /\ UNCHANGED <<oab, openai, openai_rest>>

OpenAiNext ==
    \/ \E k \in ApiKeys : OpenAiApiKey(k)
    \/ \E k \in Clients : OpenAiClient(k)
    \/ \E k \in Limiters : OpenAiLimiter(k)
    \/ OpenAiBuild
    \/ OpenAiChatCompletion
    \/ OpenAiSpeech

OpenAiSpec == OpenAiInit /\ [][OpenAiNext]_vars

(***************************************************************************)
(* C21: OpenAiBuilder::build panics when neither an API key nor a client   *)
(* has been provided, and otherwise returns an OpenAi instance built from  *)
(* the configuration that was set.                                         *)
(***************************************************************************)
C21_BuildPanicsOrBuilds ==
    openai # NotBuilt =>
        IF oab.api_key = NoneStr /\ oab.client = NoneStr
        THEN openai.tag = "panic"
        ELSE /\ openai.tag = "Ok"
             /\ oab.api_key # NoneStr => openai.value.api_key = oab.api_key
             /\ oab.client # NoneStr => openai.value.client = oab.client
             /\ openai.value.leaky_bucket = oab.leaky_bucket

(***************************************************************************)
(* A JSON object is deserialized as a Message.                             *)
(***************************************************************************)
MessageInit ==
    /\ StreamInit
    /\ BodyIdle
    /\ CallIdle
    /\ CodecIdle
    /\ FrameIdle
    /\ OpenAiIdle
    /\ ChatBuilderIdle
    /\ SpeechBuilderIdle
    /\ AudioIdle
    /\ mjson \in MessageJsons
    /\ mvalue = NotDeserialized

\* serde_json::from_value::<Message>(mjson)
MessageFromValue ==
    /\ ~mvalue.done
    /\ mvalue' = [done |-> TRUE, ok |-> Message_from_value_ok(mjson),
                  value |-> IF Message_from_value_ok(mjson) THEN Message_from_value(mjson)
                                                            ELSE NoMessage]
    /\ UNCHANGED <<mjson, message_rest>>

MessageNext == MessageFromValue

MessageSpec == MessageInit /\ [][MessageNext]_vars

(***************************************************************************)
(* C22: deserializing a Message selects the variant from the JSON "role"   *)
(* field ("system" -> System, "user" -> User, "assistant" -> Assistant,    *)
(* "tool" -> Tool), keeps the content of the JSON unchanged, and           *)
(* Message::role() of the result is the role that was in the JSON.         *)
(***************************************************************************)
\* a JSON message as the API and the tests write it: a known role, a content
\* that is a string or an array of text parts, a tool_call_id on a tool message
IsMessageJson(o) ==
    /\ o.role \in {"system", "user", "assistant", "tool"}
    /\ \/ o.content.shape = "string"
       \/ /\ o.content.shape = "array"
          /\ \A i \in 1..Len(o.content.parts) : o.content.parts[i].type = "text"
    /\ o.role = "tool" => o.tool_call_id # NoneStr

\* the content a decoded message holds, as JSON
ContentOf(m) == ArrayContent(m.content)

C22_MessageDeserialized ==
    mvalue.done /\ IsMessageJson(mjson) =>
        /\ mvalue.ok
        /\ RoleNames[mvalue.value.variant] = mjson.role
        /\ ContentOf(mvalue.value) = mjson.content
        /\ RoleNames[Message_role(mvalue.value)] = mjson.role

(***************************************************************************)
(* A chat request is configured through its builder and built.             *)
(***************************************************************************)
ChatBuilderInit ==
    /\ StreamInit
    /\ BodyIdle
    /\ CallIdle
    /\ CodecIdle
    /\ FrameIdle
    /\ OpenAiIdle
    /\ MessageIdle
    /\ ChatBuilderIdle
    /\ SpeechBuilderIdle
    /\ AudioIdle

\* openai.chat_completion(): the builder starts with openai set
ChatCompletion(o) ==
    /\ creq = RequestNotBuilt
    /\ ncalls = 0
    /\ given["openai"] = NoOpenAi
    /\ ccb' = OpenAi_chat_completion(o)
    /\ given' = [given EXCEPT !["openai"] = o]
    /\ UNCHANGED <<calls, ncalls, creq, chatb_rest>>

\* .messages(ms)
SetMessages(ms) ==
    /\ creq = RequestNotBuilt
    /\ ncalls < MaxCalls
    /\ ccb' = ChatCompletionRequestBuilder_messages(ccb, ms)
    /\ calls' = Append(calls, MessagesCall(ms))
    /\ ncalls' = ncalls + 1
    /\ UNCHANGED <<given, creq, chatb_rest>>

\* .add_message(m)
AddMessage(m) ==
    /\ creq = RequestNotBuilt
    /\ ncalls < MaxCalls
    /\ ccb' = ChatCompletionRequestBuilder_add_message(ccb, m)
    /\ calls' = Append(calls, AddMessageCall(m))
    /\ ncalls' = ncalls + 1
    /\ UNCHANGED <<given, creq, chatb_rest>>

\* .model(v), .frequency_penalty(v), ... .stream(), ... .user(v)
SetField(key, v) ==
    /\ creq = RequestNotBuilt
    /\ ncalls < MaxCalls
    /\ ccb' = ChatCompletionRequestBuilder_set(ccb, key, v)
    /\ given' = [given EXCEPT ![key] = v]
    /\ ncalls' = ncalls + 1
    /\ UNCHANGED <<calls, creq, chatb_rest>>

\* .client(o)
SetClient(o) ==
    /\ creq = RequestNotBuilt
    /\ ncalls < MaxCalls
    /\ ccb' = ChatCompletionRequestBuilder_client(ccb, o)
    /\ given' = [given EXCEPT !["openai"] = o]
    /\ ncalls' = ncalls + 1
    /\ UNCHANGED <<calls, creq, chatb_rest>>

\* .build()
ChatBuild ==
    /\ creq = RequestNotBuilt
    /\ creq' = ChatCompletionRequestBuilder_build(ccb)
    /\ UNCHANGED <<ccb, given, calls, ncalls, chatb_rest>>

ChatBuilderNext ==
    \/ \E o \in OpenAiArgs : ChatCompletion(o)
    \/ \E ms \in MessagesArgs : SetMessages(ms)
    \/ \E m \in MessageArgs : AddMessage(m)
    \/ \E key \in OptionKeys \cup {"model"} : \E v \in SetterArgs(key) : SetField(key, v)
    \/ \E o \in OpenAiArgs : SetClient(o)
    \/ ChatBuild

ChatBuilderSpec == ChatBuilderInit /\ [][ChatBuilderNext]_vars

(***************************************************************************)
(* C24: ChatCompletionRequestBuilder::build returns Ok exactly when        *)
(* messages, model and client are all set; otherwise it returns the error  *)
(* of the first missing field in the order MessagesNotSet, ModelNotSet,    *)
(* ClientNotSet; on success every optional field of the request equals the *)
(* value last given to the builder (None when never set).                  *)
(***************************************************************************)
MessagesGiven == calls # <<>>

ModelGiven == given["model"] # NoneStr

ClientGiven == given["openai"] # NoOpenAi

C24_BuildChecksRequired ==
    creq # RequestNotBuilt =>
        /\ creq.tag = "Ok" <=> (MessagesGiven /\ ModelGiven /\ ClientGiven)
        /\ ~MessagesGiven => creq.tag = "Err" /\ creq.error = "MessagesNotSet"
        /\ MessagesGiven /\ ~ModelGiven => creq.tag = "Err" /\ creq.error = "ModelNotSet"
        /\ MessagesGiven /\ ModelGiven /\ ~ClientGiven =>
              creq.tag = "Err" /\ creq.error = "ClientNotSet"
        /\ creq.tag = "Ok" => \A k \in OptionKeys : creq.value[k] = given[k]

\* a request was built with some optional fields given and the others not
C24_Witness ==
    /\ creq.tag = "Ok"
    /\ creq.value["temperature"] = "1.0"
    /\ creq.value["stream"] = "true"
    /\ creq.value["user"] = NoneStr

(***************************************************************************)
(* C27: after any sequence of add_message calls the builder's message list *)
(* holds exactly the added messages in call order: the first call on a     *)
(* builder without messages creates a one-element list, later calls append *)
(* at the end, and a later messages() call replaces the whole list.        *)
(***************************************************************************)
\* the position of the last messages() call, 0 when there was none
LastMessagesCall ==
    LET I == {i \in 1..Len(calls) : calls[i].op = "messages"}
    IN  IF I = {} THEN 0 ELSE CHOOSE i \in I : \A j \in I : j <= i

IsAddMessage(c) == c.op = "add_message"

\* the messages added since the last messages() call, in call order
AddedSince ==
    LET adds == SelectSeq(SubSeq(calls, LastMessagesCall + 1, Len(calls)), IsAddMessage)
    IN  [i \in 1..Len(adds) |-> adds[i].arg]

SpeechBuilderInit ==
    /\ StreamInit
    /\ BodyIdle
    /\ CallIdle
    /\ CodecIdle
    /\ FrameIdle
    /\ OpenAiIdle
    /\ MessageIdle
    /\ ChatBuilderIdle
    /\ SpeechBuilderIdle
    /\ AudioIdle

\* openai.speech(): the builder starts with openai set
SpeechOf(o) ==
    /\ sreq = SpeechNotBuilt
    /\ sb = SpeechRequestBuilder_default
    /\ sb' = OpenAi_speech(o)
    /\ UNCHANGED <<sreq, speech_rest>>

\* .model(v)
SpeechModel(v) ==
    /\ sreq = SpeechNotBuilt
    /\ sb' = [sb EXCEPT !.model = v]
    /\ UNCHANGED <<sreq, speech_rest>>

\* .input(text), text of n bytes
SpeechInput(n) ==
    /\ sreq = SpeechNotBuilt
    /\ sb' = [sb EXCEPT !.input = Input(n)]
    /\ UNCHANGED <<sreq, speech_rest>>

\* .voice(v)
SpeechVoice(v) ==
    /\ sreq = SpeechNotBuilt
    /\ sb' = [sb EXCEPT !.voice = v]
    /\ UNCHANGED <<sreq, speech_rest>>

\* .response_format(v)
SpeechResponseFormat(v) ==
    /\ sreq = SpeechNotBuilt
    /\ sb' = [sb EXCEPT !.response_format = v]
    /\ UNCHANGED <<sreq, speech_rest>>

\* .speed(v)
SpeechSpeed(v) ==
    /\ sreq = SpeechNotBuilt
    /\ sb' = [sb EXCEPT !.speed = v]
    /\ UNCHANGED <<sreq, speech_rest>>

\* .client(o)
SpeechClient(o) ==
    /\ sreq = SpeechNotBuilt
    /\ sb' = [sb EXCEPT !.openai = o]
    /\ UNCHANGED <<sreq, speech_rest>>

\* .build()
SpeechBuild ==
    /\ sreq = SpeechNotBuilt
    /\ sreq' = SpeechRequestBuilder_build(sb)
    /\ UNCHANGED <<sb, speech_rest>>

SpeechBuilderNext ==
    \/ \E o \in OpenAiArgs : SpeechOf(o)
    \/ \E v \in {"tts-1"} : SpeechModel(v)
    \/ \E n \in InputLengths : SpeechInput(n)
    \/ \E v \in {"alloy"} : SpeechVoice(v)
    \/ \E v \in {"MP3", "OPUS"} : SpeechResponseFormat(v)
    \/ \E v \in Speeds : SpeechSpeed(v)
    \/ \E o \in OpenAiArgs : SpeechClient(o)
    \/ SpeechBuild

SpeechBuilderSpec == SpeechBuilderInit /\ [][SpeechBuilderNext]_vars

(***************************************************************************)
(* C25: SpeechRequestBuilder::build always returns a Result and never      *)
(* panics: for every combination of set and unset fields it returns Err    *)
(* with the matching variant (InputNotSet when input was never set,        *)
(* ModelNotSet, VoiceNotSet, ResponseFormatNotSet, ClientNotSet).          *)
(***************************************************************************)
\* the fields build cannot do without, and the error of each
NotSetErrors == [model |-> "ModelNotSet", input |-> "InputNotSet", voice |-> "VoiceNotSet",
                 response_format |-> "ResponseFormatNotSet", openai |-> "ClientNotSet"]

IsUnset(k) ==
    IF k = "input" THEN ~sb.input.some
    ELSE IF k = "openai" THEN sb.openai = NoOpenAi
    ELSE sb[k] = NoneStr

C25_BuildNeverPanics ==
    sreq # SpeechNotBuilt =>
        /\ sreq.tag \in {"Ok", "Err"}
        /\ (\E k \in DOMAIN NotSetErrors : IsUnset(k)) => sreq.tag = "Err"
        /\ \A k \in DOMAIN NotSetErrors : sreq.error = NotSetErrors[k] => IsUnset(k)

(***************************************************************************)
(* C26: SpeechRequestBuilder::build never returns Ok for an input longer   *)
(* than 4096 bytes or for a speed outside the closed range 0.25 to 4.0     *)
(* (both bounds accepted, an unset speed accepted); these range checks     *)
(* take precedence over the missing-field errors, TextTooLong before       *)
(* SpeedOutOfRange.                                                        *)
(***************************************************************************)
TooLong == sb.input.some /\ sb.input.len > 4096

BadSpeed == sb.speed.some /\ (sb.speed.nan \/ sb.speed.hundredths < 25 \/ sb.speed.hundredths > 400)

AllSet == \A k \in DOMAIN NotSetErrors : ~IsUnset(k)

C26_RangeChecksFirst ==
    sreq # SpeechNotBuilt =>
        /\ TooLong \/ BadSpeed => sreq.tag # "Ok"
        /\ TooLong \/ BadSpeed => sreq.error \notin {NotSetErrors[k] : k \in DOMAIN NotSetErrors}
        /\ TooLong => sreq.tag = "Err" /\ sreq.error = "TextTooLong"
        /\ BadSpeed /\ ~TooLong /\ sreq.tag = "Err" => sreq.error = "SpeedOutOfRange"
        /\ AllSet /\ ~TooLong /\ ~BadSpeed => sreq.tag = "Ok"

\* an input that is too long, a speed out of range and fields missing: TextTooLong
C26_Witness ==
    /\ sreq.tag = "Err"
    /\ sreq.error = "TextTooLong"
    /\ sb.input.len = 4097
    /\ sb.speed = Speed(401)
    /\ sb.model = NoneStr

(***************************************************************************)
(* An audio format is written as extension and MIME type, an extension is  *)
(* read back, and a transcription builder is given its audio.              *)
(***************************************************************************)
AudioInit ==
    /\ StreamInit
    /\ BodyIdle
    /\ CallIdle
    /\ CodecIdle
    /\ FrameIdle
    /\ OpenAiIdle
    /\ MessageIdle
    /\ ChatBuilderIdle
    /\ SpeechBuilderIdle
    /\ format \in AudioFormats \cup {NoneStr}
    /\ extension \in IF format = NoneStr THEN OtherExtensions ELSE {NoneStr}
    /\ mime = NoneStr
    /\ parsed = NotParsed
    /\ tb = TranscribeRequestBuilder_default

\* format.to_extension()
ToExtension ==
    /\ format # NoneStr
    /\ extension = NoneStr
    /\ extension' = AudioFormat_to_extension(format)
    /\ UNCHANGED <<format, mime, parsed, tb, audio_rest>>

\* format.to_mime()
ToMime ==
    /\ format # NoneStr
    /\ mime = NoneStr
    /\ mime' = AudioFormat_to_mime(format)
    /\ UNCHANGED <<format, extension, parsed, tb, audio_rest>>

\* AudioFormat::from_extension(extension)
FromExtension ==
    /\ extension # NoneStr
    /\ ~parsed.done
    /\ parsed' = [done |-> TRUE, value |-> AudioFormat_from_extension(extension)]
    /\ UNCHANGED <<format, extension, mime, tb, audio_rest>>

\* .audio(bytes)
AudioBytes ==
    /\ ~tb.panicked
    /\ tb' = TranscribeRequestBuilder_audio_bytes(tb)
    /\ UNCHANGED <<format, extension, mime, parsed, audio_rest>>

\* .audio(file): std::fs::read succeeds or fails
AudioFile(ms, ok) ==
    /\ ~tb.panicked
    /\ tb' = TranscribeRequestBuilder_audio_file(tb, ms, ok)
    /\ UNCHANGED <<format, extension, mime, parsed, audio_rest>>

\* .format(f)
AudioSetFormat(f) ==
    /\ ~tb.panicked
    /\ tb' = TranscribeRequestBuilder_format(tb, f)
    /\ UNCHANGED <<format, extension, mime, parsed, audio_rest>>

AudioNext ==
    \/ ToExtension
    \/ ToMime
    \/ FromExtension
    \/ AudioBytes
    \/ \E ms \in Paths : \E ok \in BOOLEAN : AudioFile(ms, ok)
    \/ \E f \in AudioFormats : AudioSetFormat(f)

AudioSpec == AudioInit /\ [][AudioNext]_vars

(***************************************************************************)
(* C28: for every AudioFormat f, from_extension(to_extension(f)) is        *)
(* Some(f); from_extension returns None for every string that is not one   *)
(* of the nine known extensions; and to_mime gives the same MIME type to   *)
(* formats of the same container (mp3, mpeg, mpga -> audio/mpeg; mp4, m4a  *)
(* -> audio/mp4).                                                          *)
(***************************************************************************)
KnownExtensions == {"mp3", "mp4", "flac", "mpeg", "mpga", "m4a", "ogg", "wav", "webm"}

C28_ExtensionRoundTrip ==
    /\ format # NoneStr /\ extension # NoneStr => extension \in KnownExtensions
    /\ format # NoneStr /\ parsed.done => parsed.value = format
    /\ parsed.done /\ extension \notin KnownExtensions => parsed.value = NoneStr
    /\ mime # NoneStr /\ format \in {"Mp3", "Mpeg", "Mpga"} => mime = "audio/mpeg"
    /\ mime # NoneStr /\ format \in {"Mp4", "M4a"} => mime = "audio/mp4"
    /\ tb.format # NoneStr => tb.format \in AudioFormats

\* Mpga was written as "mpga", read back, and given its MIME type
C28_Witness ==
    /\ format = "Mpga"
    /\ extension = "mpga"
    /\ parsed.done
    /\ parsed.value = "Mpga"
    /\ mime = "audio/mpeg"

====
